---- MODULE Spec2Model ----
(***************************************************************************)
(* The report pipeline of the AI SEO comparator: the analyze dispatcher,   *)
(* the Pub/Sub workers (AI providers, PageSpeed, website structure), the   *)
(* analysis_results document they merge into, and the Firestore trigger    *)
(* handleReportCompletion that aggregates the report.  One report id.      *)
(***************************************************************************)
EXTENDS Naturals, Sequences, FiniteSets, Bags, TLC

\* ------------------------------------------------------------------ bounds
\* longest explicit enabledServices list a request carries
MaxServices == 2
\* longest explicit enabledServices list of a request that carries an email
MaxEmailServices == 1
\* longest enabledServices list of a request whose task messages may be delivered
\* more than once
MaxRedeliveredServices == 1
\* most image elements of a page the structure probe is run on
MaxImages == 2
\* infrastructure faults over the whole run: a store or publish operation that
\* fails, or an acknowledgement that is lost (Pub/Sub then delivers again)
MaxFaults == 1

\* --------------------------------------------------------------- constants
\* ANALYSIS_TYPES.GEMINI / CLAUDE / CHATGPT: the ids AI_SERVICES configures
Providers == {"gemini", "claude", "chatgpt"}
\* an id a request may carry that AI_SERVICES does not configure
ServiceIds == Providers \cup {"other"}
\* the default of `enabledServices || [GEMINI, CLAUDE, CHATGPT]`
DefaultServices == <<"gemini", "claude", "chatgpt">>
\* the fields of the analysis_results document that hold a sub-analysis
Keys == ServiceIds \cup {"pageSpeed", "websiteStructure"}

\* a request body's websiteUrl: absent/empty, or a URL
Urls == {"", "https://example.com"}

SeqsUpTo(S, n) == UNION {[1..k -> S] : k \in 0..n}

\* req.body.enabledServices: not given, or a list of ids (any list: the code
\* does not validate it)
EnabledChoices ==
    {[given |-> FALSE, list |-> <<>>]}
        \cup {[given |-> TRUE, list |-> l] : l \in SeqsUpTo(ServiceIds, MaxServices)}

Bodies ==
    {b \in [websiteUrl : Urls, email : BOOLEAN, enabledServices : EnabledChoices] :
        b.email => /\ b.enabledServices.given
                   /\ Len(b.enabledServices.list) <= MaxEmailServices}

\* The request once a handler has destructured it: the URL it carried stays on
\* record, its email and list live on in the report only.
Consumed(b) ==
    [websiteUrl |-> b.websiteUrl, email |-> FALSE,
     enabledServices |-> [given |-> FALSE, list |-> <<>>]]

\* ----------------------------------------------------------------- entries
\* One field of analysis_results (or its copy in the report): the status tag and
\* which of the other fields the map holds.
Absent ==
    [status |-> "absent", payload |-> FALSE, model |-> FALSE, error |-> FALSE,
     message |-> FALSE, ts |-> FALSE]

\* { seoAnalysis, companyAnalysis, status: 'completed', model, timestamp }
AICompleted ==
    [status |-> "completed", payload |-> TRUE, model |-> TRUE, error |-> FALSE,
     message |-> FALSE, ts |-> TRUE]

\* controllers/aiAnalysis.js: { seoAnalysis: { ..., status: 'completed', model,
\* timestamp }, companyAnalysis: { ... the same } }: status, model and timestamp
\* are inside the two sub-objects, the entry itself has none (its timestamp
\* goes to the document's top level)
NestedCompleted ==
    [status |-> "absent", payload |-> TRUE, model |-> FALSE, error |-> FALSE,
     message |-> FALSE, ts |-> FALSE]

\* { status: 'skipped', message } (its timestamp goes to the document's top level)
AISkipped ==
    [status |-> "skipped", payload |-> FALSE, model |-> FALSE, error |-> FALSE,
     message |-> TRUE, ts |-> FALSE]

\* { status: 'error', error, timestamp }
ErrorEntry ==
    [status |-> "error", payload |-> FALSE, model |-> FALSE, error |-> TRUE,
     message |-> FALSE, ts |-> TRUE]

\* { ...result, status: 'completed', timestamp } of PageSpeed and structure
ServiceCompleted ==
    [status |-> "completed", payload |-> TRUE, model |-> FALSE, error |-> FALSE,
     message |-> FALSE, ts |-> TRUE]

\* { error: 'Data not found' }: the detector's placeholder for a missing field
DataNotFound ==
    [status |-> "absent", payload |-> FALSE, model |-> FALSE, error |-> TRUE,
     message |-> FALSE, ts |-> FALSE]

\* a write-once field: a second write of a written field is recorded as an error
MergeEntryWriteOnce(old, new) ==
    IF old.status = "absent" THEN new
    ELSE [old EXCEPT !.status = "error", !.error = TRUE]

\* Firestore set(..., { merge: true }) on one map field: the fields written
\* replace the stored ones, the fields not written stay.
MergeEntry(old, new) ==
    [status  |-> IF new.status = "absent" THEN old.status ELSE new.status,
     payload |-> old.payload \/ new.payload,
     model   |-> old.model \/ new.model,
     error   |-> old.error \/ new.error,
     message |-> old.message \/ new.message,
     ts      |-> old.ts \/ new.ts]

VARIABLES
    pc,          \* where the request is: client, analyze, publish, responded
    body,        \* the request body (see Consumed)
    response,    \* the HTTP response (status 0: none yet)
    report,      \* the reports/{reportId} document
    created,     \* number of report documents created
    published,   \* number of task messages published (a prefix of Tasks)
    queue,       \* undelivered copies of each task message
    results,     \* the analysis_results/{reportId} document
    own,         \* per key, the merge of what the workers of that key wrote
    last,        \* the worker invocation that ended in the step just taken, and
                 \* whether a detector invocation just returned at its status check
    triggers,    \* handleReportCompletion invocations not yet past their report read
    reading,     \* invocations between the report read and the results read
    updating,    \* invocations about to run reportRef.update: their finalReport
    failing,     \* invocations in the catch block, about to write status failed
    finalized,   \* number of finalizing updates executed
    pdfTasks,    \* messages published to TOPICS.GENERATE_PDF (generateAndSendPdf)
    page,        \* the website as the structure probe meets it
    probe,       \* what analyzeWebsiteStructure ended with
    ai,          \* the AI worker invocation followed on its own: which controller
                 \* file, what it meets, whether it ran, the provider calls it made
    faults       \* infrastructure faults so far

vars ==
    <<pc, body, response, report, created, published, queue,
      results, own, last, triggers, reading, updating,
      failing, finalized, pdfTasks, page, probe, ai, faults>>

dispatchVars == <<body, response, report, created, published, queue>>
workerVars == <<results, own>>
detectorVars == <<triggers, reading, updating, failing, finalized>>

\* ---------------------------------------------------------- the website
\* How a GET ends: status 200, another 2xx status (axios resolves), a status
\* outside 2xx (axios rejects), or no response at all.
FetchResults == {"200", "204", "404", "unreachable"}

\* The alt attribute of an image element: not there, there and empty, or text.
Alts == {"none", "empty", "text"}

\* The page's meta[name="description"]: no such element, an element without a
\* content attribute, one whose content is the empty string, one with text.
MetaContents == {"none", "nocontent", "empty", "text"}

\* A website: how the GETs of the page, of /robots.txt and of /sitemap.xml end,
\* and what the page's HTML holds.
Pages ==
    [fetch : {"200", "unreachable"}, robots : FetchResults, sitemap : FetchResults,
     meta : MetaContents, title : BOOLEAN, h1 : BOOLEAN,
     imgs : SeqsUpTo(Alts, MaxImages)]

\* a reachable page with all files and all tags, and no image
PlainPage ==
    [fetch |-> "200", robots |-> "200", sitemap |-> "200", meta |-> "text",
     title |-> TRUE, h1 |-> TRUE, imgs |-> <<>>]

\* The result object of analyzeWebsiteStructure (its titleTag text left out), or
\* a thrown error; done: the probe has run.  metaDescription is "null" for
\* null, "" for the empty string and "text" for any other string.
NoProbe ==
    [done |-> FALSE, threw |-> FALSE, robotsTxtFound |-> FALSE,
     sitemapXmlFound |-> FALSE, h1TagsFound |-> FALSE, imageAltsGood |-> FALSE,
     metaDescription |-> "null", recommendations |-> <<>>]

ProbeThrew == [NoProbe EXCEPT !.done = TRUE, !.threw = TRUE]

\* ------------------------------------------------------------- dispatcher
\* the list as the request gave it, without the default
EnabledListAsGiven(b) == b.enabledServices.list

\* enabledServices || [GEMINI, CLAUDE, CHATGPT]
EnabledList(b) ==
    IF b.enabledServices.given THEN b.enabledServices.list ELSE DefaultServices

\* The analysisType / document field of each task message analyze publishes, in
\* publishing order: one per entry of the list, then PageSpeed, then structure.
TaskList(enabled) == enabled \o <<"pageSpeed", "websiteStructure">>

\* The task messages of the report: the handler publishes for the same list it
\* stored in the report.
Tasks == TaskList(report.enabledServices)

MaxTasks == (IF MaxServices > 3 THEN MaxServices ELSE 3) + 2
TaskIds == 1..MaxTasks

NoResponse == [status |-> 0, reportId |-> FALSE, error |-> FALSE]
NoReport ==
    [exists |-> FALSE, status |-> "none", email |-> FALSE, enabledServices |-> <<>>,
     aiAnalysis |-> [k \in ServiceIds |-> Absent], pageSpeed |-> Absent,
     websiteStructure |-> Absent, completedAt |-> FALSE, error |-> FALSE]

NoResults == [exists |-> FALSE, entries |-> [k \in Keys |-> Absent], ts |-> FALSE]

\* no AI worker invocation is followed on its own
NoAI ==
    [controller |-> "part_006", done |-> FALSE, calls |-> 0,
     env |-> [credential |-> FALSE, vertex |-> FALSE, first |-> "ok", second |-> "ok"]]

NoInvocation == [credential |-> FALSE, net |-> FALSE, exit |-> "none", noop |-> FALSE]

Init ==
    /\ pc = "client"
    /\ body \in Bodies
    /\ response = NoResponse
    /\ report = NoReport
    /\ created = 0
    /\ published = 0
    /\ queue = [i \in TaskIds |-> 0]
    /\ results = NoResults
    /\ own = [k \in Keys |-> Absent]
    /\ last = NoInvocation
    /\ triggers = 0
    /\ reading = 0
    /\ updating = EmptyBag
    /\ failing = 0
    /\ finalized = 0
    /\ pdfTasks = 0
    /\ page = PlainPage
    /\ probe = NoProbe
    /\ ai = NoAI
    /\ faults = 0

\* route.ts POST: the Next.js proxy validates the URL, fills the defaults it
\* forwards (enabledServices || ['gemini', 'claude', 'chatgpt']) and calls analyze.
POST ==
    /\ pc = "client"
    /\ IF body.websiteUrl = ""
         THEN /\ response' = [status |-> 400, reportId |-> FALSE, error |-> TRUE]
              /\ pc' = "responded"
              /\ body' = Consumed(body)
         ELSE /\ body' = [body EXCEPT !.enabledServices =
                            [given |-> TRUE, list |-> EnabledList(body)]]
              /\ pc' = "analyze"
              /\ response' = response
    /\ last' = NoInvocation
    /\ UNCHANGED <<report, created, published, queue>>
    /\ UNCHANGED <<workerVars, detectorVars, faults>>
    /\ UNCHANGED <<pdfTasks, page, probe, ai>>

\* The analyze function is an HTTP endpoint of its own: a client can call it
\* without the proxy.
DirectRequest ==
    /\ pc = "client"
    /\ pc' = "analyze"
    /\ last' = NoInvocation
    /\ UNCHANGED <<dispatchVars, workerVars, detectorVars, faults>>
    /\ UNCHANGED <<pdfTasks, page, probe, ai>>

\* analyze without its websiteUrl check
ValidUrlUnchecked(b) == b.websiteUrl \in Urls

\* if (!websiteUrl) return res.status(400).send({ error })
ValidUrl(b) == b.websiteUrl # ""

AnalyzeReject ==
    /\ pc = "analyze"
    /\ ~ValidUrl(body)
    /\ response' = [status |-> 400, reportId |-> FALSE, error |-> TRUE]
    /\ pc' = "responded"
    /\ body' = Consumed(body)
    /\ last' = NoInvocation
    /\ UNCHANGED <<report, created, published, queue>>
    /\ UNCHANGED <<workerVars, detectorVars, faults>>
    /\ UNCHANGED <<pdfTasks, page, probe, ai>>

\* analyze going on to publish without having stored the report
NewReportNotStored(b) == NoReport

\* db.collection(REPORTS).add({ websiteUrl, email, submittedAt, status:
\* 'processing', enabledServices, prompts })
NewReport(b) ==
    [NoReport EXCEPT !.exists = TRUE, !.status = "processing", !.email = b.email,
                     !.enabledServices = EnabledList(b)]

AnalyzeCreate ==
    /\ pc = "analyze"
    /\ ValidUrl(body)
    /\ report' = NewReport(body)
    /\ created' = created + 1
    /\ pc' = "publish"
    /\ body' = Consumed(body)
    /\ last' = NoInvocation
    /\ UNCHANGED <<response, published, queue>>
    /\ UNCHANGED <<workerVars, detectorVars, faults>>
    /\ UNCHANGED <<pdfTasks, page, probe, ai>>

\* One pubSubClient.topic(...).publishMessage of the loop and of the two
\* publishes after it: task message number published + 1.
AnalyzePublish ==
    /\ pc = "publish"
    /\ published < Len(Tasks)
    /\ published' = published + 1
    /\ queue' = [queue EXCEPT ![published + 1] = @ + 1]
    /\ last' = NoInvocation
    /\ UNCHANGED <<pc, body, response, report, created>>
    /\ UNCHANGED <<workerVars, detectorVars, faults>>
    /\ UNCHANGED <<pdfTasks, page, probe, ai>>

\* res.status(200).send({ reportId, message })
AnalyzeRespond ==
    /\ pc = "publish"
    /\ published = Len(Tasks)
    /\ response' = [status |-> 200, reportId |-> TRUE, error |-> FALSE]
    /\ pc' = "responded"
    /\ last' = NoInvocation
    /\ UNCHANGED <<body, report, created, published, queue>>
    /\ UNCHANGED <<workerVars, detectorVars, faults>>
    /\ UNCHANGED <<pdfTasks, page, probe, ai>>

\* a catch block that answers as if the dispatch had succeeded
AnalyzeFailAnsweringOk ==
    /\ \/ pc = "analyze" /\ ValidUrl(body)
       \/ pc = "publish" /\ published < Len(Tasks)
    /\ faults < MaxFaults
    /\ faults' = faults + 1
    /\ response' = [status |-> 200, reportId |-> TRUE, error |-> FALSE]
    /\ pc' = "responded"
    /\ body' = Consumed(body)
    /\ last' = NoInvocation
    /\ UNCHANGED <<report, created, published, queue>>
    /\ UNCHANGED <<workerVars, detectorVars>>
    /\ UNCHANGED <<pdfTasks, page, probe, ai>>

\* catch (error): db.add or a publishMessage threw;
\* res.status(500).send({ error: 'Failed to initiate analysis' })
AnalyzeFail ==
    /\ \/ pc = "analyze" /\ ValidUrl(body)
       \/ pc = "publish" /\ published < Len(Tasks)
    /\ faults < MaxFaults
    /\ faults' = faults + 1
    /\ response' = [status |-> 500, reportId |-> FALSE, error |-> TRUE]
    /\ pc' = "responded"
    /\ body' = Consumed(body)
    /\ last' = NoInvocation
    /\ UNCHANGED <<report, created, published, queue>>
    /\ UNCHANGED <<workerVars, detectorVars>>
    /\ UNCHANGED <<pdfTasks, page, probe, ai>>

\* ----------------------------------------------------------------- workers
\* What one worker invocation meets outside the store: whether the credential of
\* its service is configured (config.claudeApiKey, chatGptApiKey, geminiApiKey,
\* pageSpeedApiKey), GOOGLE_GENAI_USE_VERTEXAI, and how its external calls end
\* (the AI handler makes two, the others one).
Outcomes == {"ok", "fail"}
Envs == [credential : BOOLEAN, vertex : BOOLEAN, first : Outcomes, second : Outcomes]

\* Whether task message i is one of the AI topic: the first enabledServices.length
\* messages are.
IsAITask(i) == i <= Len(report.enabledServices)

\* The environments that differ in something the handler of task i reads.
EnvsOf(i) ==
    LET k == Tasks[i]
    IN  IF IsAITask(i) /\ k = "gemini" THEN Envs
        ELSE IF IsAITask(i) /\ k \in Providers THEN {e \in Envs : ~e.vertex}
        ELSE IF IsAITask(i)
          THEN {e \in Envs : ~e.vertex /\ ~e.credential /\ e.first = "ok"
                               /\ e.second = "ok"}
        ELSE IF k = "pageSpeed" THEN {e \in Envs : ~e.vertex /\ e.second = "ok"}
        ELSE {e \in Envs : ~e.vertex /\ ~e.credential /\ e.second = "ok"}

\* One call of the provider function getAPICallFunction returns, as
\* [net: a request left the process, ok: it returned a value].
\* callGeminiAPI never reads its API key: it goes to Vertex AI when the flag is
\* set and throws in callGeminiDirect otherwise.  callClaudeAPI and
\* callChatGPTAPI throw before axios.post when their key is missing.
CallProvider(k, env, outcome) ==
    IF k = "gemini"
      THEN [net |-> env.vertex, ok |-> env.vertex /\ outcome = "ok"]
      ELSE [net |-> env.credential, ok |-> env.credential /\ outcome = "ok"]

\* callPageSpeedAPI: throws before axios.get when the key is missing.
CallPageSpeed(env) ==
    [net |-> env.credential, ok |-> env.credential /\ env.first = "ok"]

\* analyzeWebsiteStructure: axios.get(url) first; robots.txt and sitemap.xml
\* cannot make it fail.
CallStructure(env) == [net |-> TRUE, ok |-> env.first = "ok"]

\* handleAIAnalysis with a catch block that stores the error and returns null
handleAIAnalysisSwallowing(k, env) ==
    IF k \notin Providers
      THEN [entry |-> AISkipped, top |-> TRUE, net |-> FALSE, exit |-> "returned",
            calls |-> 0]
      ELSE LET seo == CallProvider(k, env, env.first)
               company == CallProvider(k, env, env.second)
           IN  IF seo.ok /\ company.ok
                 THEN [entry |-> AICompleted, top |-> FALSE,
                       net |-> seo.net \/ company.net, exit |-> "returned",
                       calls |-> 2]
                 ELSE [entry |-> ErrorEntry, top |-> FALSE,
                       net |-> seo.net \/ company.net, exit |-> "returned",
                       calls |-> 2]

\* The end of one invocation of handleAIAnalysis: the entry it merges at
\* [analysisType], whether it also writes the top-level timestamp, whether a
\* request went to the provider, how the handler ends, and how many times it
\* called the provider function.
\* Promise.all([seo call, company call]): both calls start; it rejects when
\* either rejects.
handleAIAnalysis(k, env) ==
    IF k \notin Providers
      THEN \* !serviceConfig || !serviceConfig.enabled
           [entry |-> AISkipped, top |-> TRUE, net |-> FALSE, exit |-> "returned",
            calls |-> 0]
      ELSE LET seo == CallProvider(k, env, env.first)
               company == CallProvider(k, env, env.second)
           IN  IF seo.ok /\ company.ok
                 THEN [entry |-> AICompleted, top |-> FALSE,
                       net |-> seo.net \/ company.net, exit |-> "returned",
                       calls |-> 2]
                 ELSE \* catch: store the error, then throw error
                      [entry |-> ErrorEntry, top |-> FALSE,
                       net |-> seo.net \/ company.net, exit |-> "threw",
                       calls |-> 2]

\* controllers/aiAnalysis.js: callGeminiAPI, callClaudeAPI and callChatGPTAPI
\* each throw before axios.post when their key (process.env) is missing.
aiAnalysisCallProvider(k, env, outcome) ==
    [net |-> env.credential, ok |-> env.credential /\ outcome = "ok"]

\* controllers/aiAnalysis.js: handleAIAnalysis.  The same steps; the entry of a
\* success is NestedCompleted, and every write carries the top-level timestamp.
aiAnalysisHandleAIAnalysis(k, env) ==
    IF k \notin Providers
      THEN [entry |-> AISkipped, top |-> TRUE, net |-> FALSE, exit |-> "returned",
            calls |-> 0]
      ELSE LET seo == aiAnalysisCallProvider(k, env, env.first)
               company == aiAnalysisCallProvider(k, env, env.second)
           IN  IF seo.ok /\ company.ok
                 THEN [entry |-> NestedCompleted, top |-> TRUE,
                       net |-> seo.net \/ company.net, exit |-> "returned",
                       calls |-> 2]
                 ELSE [entry |-> ErrorEntry, top |-> TRUE,
                       net |-> seo.net \/ company.net, exit |-> "threw",
                       calls |-> 2]

\* handlePageSpeedAnalysis with a catch block that rethrows without storing
handlePageSpeedAnalysisNoStore(env) ==
    LET r == CallPageSpeed(env)
    IN  IF r.ok
          THEN [entry |-> ServiceCompleted, top |-> FALSE, net |-> r.net,
                exit |-> "returned"]
          ELSE [entry |-> Absent, top |-> FALSE, net |-> r.net, exit |-> "threw"]

handlePageSpeedAnalysis(env) ==
    LET r == CallPageSpeed(env)
    IN  IF r.ok
          THEN [entry |-> ServiceCompleted, top |-> FALSE, net |-> r.net,
                exit |-> "returned"]
          ELSE [entry |-> ErrorEntry, top |-> FALSE, net |-> r.net,
                exit |-> "threw"]

handleWebsiteStructureAnalysis(env) ==
    LET r == CallStructure(env)
    IN  IF r.ok
          THEN [entry |-> ServiceCompleted, top |-> FALSE, net |-> r.net,
                exit |-> "returned"]
          ELSE [entry |-> ErrorEntry, top |-> FALSE, net |-> r.net,
                exit |-> "threw"]

\* The handler the topic of task message i is bound to.
Handler(i, env) ==
    IF IsAITask(i) THEN handleAIAnalysis(Tasks[i], env)
    ELSE IF Tasks[i] = "pageSpeed" THEN handlePageSpeedAnalysis(env)
    ELSE handleWebsiteStructureAnalysis(env)

\* set() without { merge: true }: the document becomes what was written
SetResults(doc, k, e, top) ==
    [exists  |-> TRUE,
     entries |-> [j \in Keys |-> IF j = k THEN e ELSE Absent],
     ts      |-> top]

\* db.collection(ANALYSIS_RESULTS).doc(reportId).set({ [k]: e, (timestamp) },
\* { merge: true }): creates the document when there is none, and otherwise
\* merges into field k and leaves every other field as it is.
MergeResults(doc, k, e, top) ==
    [exists  |-> TRUE,
     entries |-> [doc.entries EXCEPT ![k] = MergeEntry(@, e)],
     ts      |-> doc.ts \/ top]

\* a trigger on every write (onDocumentWritten): the creating write included
WriteEvents(doc) == IF doc.exists THEN 1 ELSE 1

\* aggregateResults = onDocumentUpdated(analysis_results/{reportId}): a write to
\* an existing document is an update event (every write changes the document:
\* it carries a new Date()); the write that creates the document is not.
UpdateEvents(doc) == IF doc.exists THEN 1 ELSE 0

\* a worker whose failure cancels the report: the pending task messages of its
\* siblings are dropped
WorkerAborting(i, env, acked) ==
    /\ queue[i] > 0
    /\ acked \/ faults < MaxFaults
    /\ LET k == Tasks[i]
           r == Handler(i, env)
       IN  /\ results' = MergeResults(results, k, r.entry, r.top)
           /\ triggers' = triggers + UpdateEvents(results)
           /\ own' = [own EXCEPT ![k] = MergeEntry(@, r.entry)]
           /\ last' = [credential |-> env.credential, net |-> r.net, exit |-> r.exit,
                        noop |-> FALSE]
           /\ queue' = IF r.exit = "threw" THEN [j \in TaskIds |-> 0]
                       ELSE IF acked THEN [queue EXCEPT ![i] = @ - 1] ELSE queue
    /\ faults' = IF acked THEN faults ELSE faults + 1
    /\ UNCHANGED <<pc, body, response, report, created, published>>
    /\ UNCHANGED <<reading, updating, failing, finalized>>
    /\ UNCHANGED <<pdfTasks, page, probe, ai>>

\* a worker that records its failure in the report as well
WorkerMarkingReport(i, env, acked) ==
    /\ queue[i] > 0
    /\ acked \/ faults < MaxFaults
    /\ LET k == Tasks[i]
           r == Handler(i, env)
       IN  /\ results' = MergeResults(results, k, r.entry, r.top)
           /\ triggers' = triggers + UpdateEvents(results)
           /\ own' = [own EXCEPT ![k] = MergeEntry(@, r.entry)]
           /\ last' = [credential |-> env.credential, net |-> r.net, exit |-> r.exit,
                        noop |-> FALSE]
           /\ report' = IF r.exit = "threw" THEN [report EXCEPT !.error = TRUE]
                        ELSE report
    /\ queue' = IF acked THEN [queue EXCEPT ![i] = @ - 1] ELSE queue
    /\ faults' = IF acked THEN faults ELSE faults + 1
    /\ UNCHANGED <<pc, body, response, created, published>>
    /\ UNCHANGED <<reading, updating, failing, finalized>>
    /\ UNCHANGED <<pdfTasks, page, probe, ai>>

\* Task message i is delivered and its handler runs to its end.  The handler
\* reads nothing of the store, so its only step the others can see is its merge.
\* acked: the delivery is acknowledged and the message leaves the subscription;
\* otherwise it stays and is delivered again (Pub/Sub delivers at least once).
Worker(i, env, acked) ==
    /\ queue[i] > 0
    /\ acked \/ faults < MaxFaults
    /\ LET k == Tasks[i]
           r == Handler(i, env)
       IN  /\ results' = MergeResults(results, k, r.entry, r.top)
           /\ triggers' = triggers + UpdateEvents(results)
           /\ own' = [own EXCEPT ![k] = MergeEntry(@, r.entry)]
           /\ last' = [credential |-> env.credential, net |-> r.net, exit |-> r.exit,
                        noop |-> FALSE]
    /\ queue' = IF acked THEN [queue EXCEPT ![i] = @ - 1] ELSE queue
    /\ faults' = IF acked THEN faults ELSE faults + 1
    /\ UNCHANGED <<pc, body, response, report, created, published>>
    /\ UNCHANGED <<reading, updating, failing, finalized>>
    /\ UNCHANGED <<pdfTasks, page, probe, ai>>

\* ------------------------------------------------------ the structure probe
\* a robots.txt check that lets the error of its request through
checkRobotsTxtPropagating(st) ==
    IF st \in {"200", "204"} THEN [threw |-> FALSE, value |-> st = "200"]
    ELSE [threw |-> TRUE, value |-> FALSE]

\* checkRobotsTxt: axios.get resolves for a 2xx status and the check returns
\* response.status === 200; a rejected request is caught and gives false.
checkRobotsTxt(st) ==
    IF st \in {"200", "204"} THEN [threw |-> FALSE, value |-> st = "200"]
    ELSE [threw |-> FALSE, value |-> FALSE]

\* checkSitemapXml: the same for /sitemap.xml
checkSitemapXml(st) ==
    IF st \in {"200", "204"} THEN [threw |-> FALSE, value |-> st = "200"]
    ELSE [threw |-> FALSE, value |-> FALSE]

\* !$(elem).attr('alt'): the attribute is not there, or is the empty string
NoAltPresenceOnly(alt) == alt = "none"

NoAlt(alt) == alt \in {"none", "empty"}

\* the $('img').each loop of checkImageAlts from image i on: hasMissingAlts
RECURSIVE HasMissingAlts(_, _)
HasMissingAlts(imgs, i) ==
    IF i > Len(imgs) THEN FALSE
    ELSE IF NoAlt(imgs[i]) THEN TRUE
    ELSE HasMissingAlts(imgs, i + 1)

checkImageAlts(imgs) == ~HasMissingAlts(imgs, 1)

\* the image loop of generateRecommendations without its `return false`
RECURSIVE AltRecommendationsEach(_, _)
AltRecommendationsEach(imgs, i) ==
    IF i > Len(imgs) THEN <<>>
    ELSE IF NoAlt(imgs[i])
      THEN <<"Add alt tags to all images">> \o AltRecommendationsEach(imgs, i + 1)
    ELSE AltRecommendationsEach(imgs, i + 1)

\* the $('img').each loop of generateRecommendations from image i on: it pushes
\* for the first image without alt and leaves the loop
RECURSIVE AltRecommendations(_, _)
AltRecommendations(imgs, i) ==
    IF i > Len(imgs) THEN <<>>
    ELSE IF NoAlt(imgs[i]) THEN <<"Add alt tags to all images">>
    ELSE AltRecommendations(imgs, i + 1)

\* $('meta[name="description"]').attr('content') ?? null: attr gives
\* undefined when there is no element or no such attribute, and ?? replaces
\* undefined (not the empty string) by null.
metaDescription(pg) ==
    IF pg.meta \in {"none", "nocontent"} THEN "null"
    ELSE IF pg.meta = "empty" THEN ""
    ELSE "text"

\* !$('meta[name="description"]').length, !$('title').length, !$('h1').length:
\* the rules look for the elements.
generateRecommendations(pg) ==
    (IF pg.meta = "none" THEN <<"Add a meta description tag">> ELSE <<>>)
        \o (IF ~pg.title THEN <<"Add a title tag">> ELSE <<>>)
        \o (IF ~pg.h1 THEN <<"Add an H1 tag">> ELSE <<>>)
        \o AltRecommendations(pg.imgs, 1)

\* analyzeWebsiteStructure: axios.get(url) throws when the page cannot be
\* fetched; an error of a sub-check, if it let one through, would reach the same
\* catch block and be thrown again.
analyzeWebsiteStructure(pg) ==
    IF pg.fetch # "200" THEN ProbeThrew
    ELSE LET robots == checkRobotsTxt(pg.robots)
             sitemap == checkSitemapXml(pg.sitemap)
         IN  IF robots.threw \/ sitemap.threw THEN ProbeThrew
             ELSE [done |-> TRUE, threw |-> FALSE,
                   robotsTxtFound |-> robots.value,
                   sitemapXmlFound |-> sitemap.value,
                   h1TagsFound |-> pg.h1,
                   imageAltsGood |-> checkImageAlts(pg.imgs),
                   metaDescription |-> metaDescription(pg),
                   recommendations |-> generateRecommendations(pg)]

\* how the handler's call of analyzeWebsiteStructure ended
EnvOfProbe(p) ==
    [credential |-> FALSE, vertex |-> FALSE,
     first |-> IF p.threw THEN "fail" ELSE "ok", second |-> "ok"]

\* The structure task message is delivered: handleWebsiteStructureAnalysis probes
\* the website and stores the result or the error.
StructureProbe ==
    /\ queue[Len(Tasks)] > 0
    /\ ~probe.done
    /\ probe' = analyzeWebsiteStructure(page)
    /\ LET r == handleWebsiteStructureAnalysis(EnvOfProbe(probe'))
       IN  /\ results' = MergeResults(results, "websiteStructure", r.entry, r.top)
           /\ triggers' = triggers + UpdateEvents(results)
           /\ own' = [own EXCEPT !["websiteStructure"] = MergeEntry(@, r.entry)]
           /\ last' = [credential |-> FALSE, net |-> r.net, exit |-> r.exit,
                        noop |-> FALSE]
    /\ queue' = [queue EXCEPT ![Len(Tasks)] = @ - 1]
    /\ UNCHANGED <<pc, body, response, report, created, published>>
    /\ UNCHANGED <<reading, updating, failing, finalized>>
    /\ UNCHANGED <<pdfTasks, page, faults, ai>>

\* ----------------------------------------------------- one AI invocation
\* The two files that export handleAIAnalysis.
Controllers == {"part_006", "controllers/aiAnalysis.js"}

\* the handler of the controller file c
ControllerHandler(c, k, env) ==
    IF c = "part_006" THEN handleAIAnalysis(k, env)
    ELSE aiAnalysisHandleAIAnalysis(k, env)

\* The AI task message of a one-entry list is delivered: the handler of the
\* controller in use calls the provider and stores its entry.
AIAnalysis ==
    /\ Len(report.enabledServices) = 1
    /\ queue[1] > 0
    /\ ~ai.done
    /\ LET k == Tasks[1]
           r == ControllerHandler(ai.controller, k, ai.env)
       IN  /\ results' = MergeResults(results, k, r.entry, r.top)
           /\ triggers' = triggers + UpdateEvents(results)
           /\ own' = [own EXCEPT ![k] = MergeEntry(@, r.entry)]
           /\ last' = [credential |-> ai.env.credential, net |-> r.net,
                        exit |-> r.exit, noop |-> FALSE]
           /\ ai' = [ai EXCEPT !.done = TRUE, !.calls = r.calls]
    /\ queue' = [queue EXCEPT ![1] = @ - 1]
    /\ UNCHANGED <<pc, body, response, report, created, published>>
    /\ UNCHANGED <<reading, updating, failing, finalized>>
    /\ UNCHANGED <<pdfTasks, page, probe, faults>>

\* ---------------------------------------------------------------- detector
Range(f) == {f[i] : i \in DOMAIN f}

\* Object.keys(analysisResultsData).filter(key => data[key] &&
\* data[key].status === 'completed'); the top-level timestamp has no status.
CompletedServices(doc) == {k \in Keys : doc.entries[k].status = "completed"}

\* enabledServices.length + 2
ExpectedCompletionCount(rep) == Len(rep.enabledServices) + 2

\* a check that is content with one completed entry
NotYetCompleteBelowOne(rep, doc) == Cardinality(CompletedServices(doc)) < 1

\* a check that expects the enabled providers only, not the two services
NotYetCompleteProvidersOnly(rep, doc) ==
    Cardinality(CompletedServices(doc)) < Len(rep.enabledServices)

\* completedServices.length < expectedCompletionCount: not yet complete
NotYetComplete(rep, doc) ==
    Cardinality(CompletedServices(doc)) < ExpectedCompletionCount(rep)

\* data.x || { error: 'Data not found' }
OrNotFound(e) == IF e.status = "absent" THEN DataNotFound ELSE e

\* a finalReport built without the enabledServices.forEach loop
FinalReportUngrouped(rep, doc) ==
    [aiAnalysis |-> [k \in ServiceIds |-> Absent],
     websiteStructure |-> OrNotFound(doc.entries["websiteStructure"]),
     pageSpeed |-> OrNotFound(doc.entries["pageSpeed"])]

\* finalReport: aiAnalysis holds the entry of every enabled service that has one.
FinalReport(rep, doc) ==
    [aiAnalysis |-> [k \in ServiceIds |->
                       IF k \in Range(rep.enabledServices)
                         THEN doc.entries[k] ELSE Absent],
     websiteStructure |-> OrNotFound(doc.entries["websiteStructure"]),
     pageSpeed |-> OrNotFound(doc.entries["pageSpeed"])]

\* a status check that treats failed as final too
AlreadyCompletedOrFailed(rep) == rep.status \in {"completed", "failed"}

\* handleReportCompletion without its status check
AlreadyCompletedUnchecked(rep) == rep.status = "none"

\* reportRef.get(); if (reportData.status === 'completed') return null
AlreadyCompleted(rep) == rep.status = "completed"

\* handleReportCompletion without its check of reportDoc.exists
ReportMissingUnchecked(rep) == FALSE

\* if (!reportDoc.exists) return null
ReportMissing(rep) == ~rep.exists

\* handleReportCompletion without its check of analysisResultsDoc.exists
ResultsMissingUnchecked(doc) == FALSE

\* if (!analysisResultsDoc.exists) return null
ResultsMissing(doc) == ~doc.exists

\* reportRef.get() and the two checks after it.  data() of a document that
\* does not exist is undefined: reading reportData.status would throw.
DetectorReadReport ==
    /\ triggers > 0
    /\ triggers' = triggers - 1
    /\ IF ReportMissing(report)
         THEN /\ UNCHANGED <<reading, failing>>
              /\ last' = NoInvocation
         ELSE IF ~report.exists
           THEN /\ failing' = failing + 1
                /\ reading' = reading
                /\ last' = NoInvocation
         ELSE /\ reading' = IF AlreadyCompleted(report) THEN reading ELSE reading + 1
              /\ failing' = failing
              /\ last' = [NoInvocation EXCEPT !.noop = AlreadyCompleted(report)]
    /\ UNCHANGED <<pc, dispatchVars, workerVars, updating, finalized, faults>>
    /\ UNCHANGED <<pdfTasks, page, probe, ai>>

\* analysisResultsRef.get(), the check after it, the count, and the building
\* of finalReport.  Object.keys of the data of a document that does not exist
\* (undefined) would throw.
DetectorReadResults ==
    /\ reading > 0
    /\ reading' = reading - 1
    /\ IF ResultsMissing(results)
         THEN UNCHANGED <<updating, failing>>
         ELSE IF ~results.exists
           THEN /\ failing' = failing + 1
                /\ updating' = updating
         ELSE /\ updating' = IF NotYetComplete(report, results) THEN updating
                              ELSE updating (+) SetToBag({FinalReport(report, results)})
              /\ failing' = failing
    /\ last' = NoInvocation
    /\ UNCHANGED <<pc, dispatchVars, workerVars, triggers, finalized, faults>>
    /\ UNCHANGED <<pdfTasks, page, probe, ai>>

\* reportRef.update({ ...finalReport, status: 'completed', completedAt })
Finalize(rep, f) ==
    [rep EXCEPT !.aiAnalysis = f.aiAnalysis, !.websiteStructure = f.websiteStructure,
                !.pageSpeed = f.pageSpeed, !.status = "completed",
                !.completedAt = TRUE]

DetectorUpdate(f) ==
    /\ BagIn(f, updating)
    /\ updating' = updating (-) SetToBag({f})
    /\ report' = Finalize(report, f)
    /\ finalized' = finalized + 1
    /\ last' = NoInvocation
    /\ UNCHANGED <<pc, body, response, created, published, queue>>
    /\ UNCHANGED <<workerVars, triggers, reading, failing, faults>>
    /\ UNCHANGED <<pdfTasks, page, probe, ai>>

\* A store operation of the invocation throws (a get, or the update): control
\* goes to the catch block.
DetectorThrow ==
    /\ faults < MaxFaults
    /\ faults' = faults + 1
    /\ failing' = failing + 1
    /\ \/ /\ triggers > 0
          /\ triggers' = triggers - 1
          /\ UNCHANGED <<reading, updating>>
       \/ /\ reading > 0
          /\ reading' = reading - 1
          /\ UNCHANGED <<triggers, updating>>
       \/ \E f \in BagToSet(updating) :
             /\ updating' = updating (-) SetToBag({f})
             /\ UNCHANGED <<triggers, reading>>
    /\ last' = NoInvocation
    /\ UNCHANGED <<pc, dispatchVars, workerVars, finalized>>
    /\ UNCHANGED <<pdfTasks, page, probe, ai>>

\* a catch block that records the error and leaves the status
MarkFailedKeepingStatus(rep) == [rep EXCEPT !.error = TRUE]

\* catch (error): reports/{reportId}.update({ status: 'failed', error })
MarkFailed(rep) == [rep EXCEPT !.status = "failed", !.error = TRUE]

\* update() of a document that does not exist is rejected and writes nothing.
DetectorCatch ==
    /\ failing > 0
    /\ failing' = failing - 1
    /\ report' = IF report.exists THEN MarkFailed(report) ELSE report
    /\ last' = NoInvocation
    /\ UNCHANGED <<pc, body, response, created, published, queue>>
    /\ UNCHANGED <<workerVars, triggers, reading, updating, finalized, faults>>
    /\ UNCHANGED <<pdfTasks, page, probe, ai>>

\* ------------------------------------------------------------ specification
Next ==
    \/ POST
    \/ DirectRequest
    \/ AnalyzeReject
    \/ AnalyzeCreate
    \/ AnalyzePublish
    \/ AnalyzeRespond
    \/ AnalyzeFail
    \/ \E i \in 1..Len(Tasks) : \E env \in EnvsOf(i) : Worker(i, env, TRUE)
    \/ DetectorReadReport
    \/ DetectorReadResults
    \/ \E f \in BagToSet(updating) : DetectorUpdate(f)
    \/ DetectorThrow
    \/ DetectorCatch

\* Every task message is delivered exactly once; store and publish operations
\* may fail.
Spec == Init /\ [][Next]_vars

\* A delivery whose acknowledgement is lost: the message is delivered again.
Redelivery ==
    \E i \in 1..Len(Tasks) : \E env \in EnvsOf(i) : Worker(i, env, FALSE)

NextAtLeastOnce == Next \/ Redelivery

\* the requests followed under at-least-once delivery: an explicit, short list
InitAtLeastOnce ==
    /\ Init
    /\ body.enabledServices.given
    /\ Len(body.enabledServices.list) <= MaxRedeliveredServices

\* The same system with Pub/Sub's at-least-once delivery.
SpecAtLeastOnce == InitAtLeastOnce /\ [][NextAtLeastOnce]_vars

\* A request for some website with enabledServices [] has been dispatched and
\* answered; its two task messages are pending.
InitProbe ==
    /\ pc = "responded"
    /\ body = [websiteUrl |-> "https://example.com", email |-> FALSE,
               enabledServices |-> [given |-> FALSE, list |-> <<>>]]
    /\ response = [status |-> 200, reportId |-> TRUE, error |-> FALSE]
    /\ report = [NoReport EXCEPT !.exists = TRUE, !.status = "processing"]
    /\ created = 1
    /\ published = 2
    /\ queue = [i \in TaskIds |-> IF i <= 2 THEN 1 ELSE 0]
    /\ results = NoResults
    /\ own = [k \in Keys |-> Absent]
    /\ last = NoInvocation
    /\ triggers = 0
    /\ reading = 0
    /\ updating = EmptyBag
    /\ failing = 0
    /\ finalized = 0
    /\ pdfTasks = 0
    /\ page \in Pages
    /\ probe = NoProbe
    /\ ai = NoAI
    /\ faults = 0

NextProbe == StructureProbe

\* The structure worker on every website.
SpecProbe == InitProbe /\ [][NextProbe]_vars

\* The stores as an invocation of the trigger can meet them: no report (or a
\* report at processing) for the id, no analysis_results document (or one with
\* some entries).  Documents are deleted from outside the functions only.
DetectorReports ==
    {NoReport} \cup
        {[NoReport EXCEPT !.exists = TRUE, !.status = "processing",
                          !.enabledServices = l] : l \in SeqsUpTo({"gemini"}, 1)}

DetectorResults ==
    {NoResults} \cup
        {[exists |-> TRUE, ts |-> FALSE,
          entries |-> [k \in Keys |->
                         IF k \notin DOMAIN e THEN Absent
                         ELSE IF e[k] = "completed"
                           THEN (IF k = "gemini" THEN AICompleted ELSE ServiceCompleted)
                         ELSE IF e[k] = "error" THEN ErrorEntry
                         ELSE Absent]] :
            e \in [{"gemini", "pageSpeed", "websiteStructure"} ->
                      {"absent", "completed", "error"}]}

\* One update event of analysis_results/{reportId} is to be handled; the
\* dispatcher and the workers are at rest.
InitDetector ==
    /\ pc = "responded"
    /\ body = [websiteUrl |-> "https://example.com", email |-> FALSE,
               enabledServices |-> [given |-> FALSE, list |-> <<>>]]
    /\ report \in DetectorReports
    /\ response = IF report.exists
                    THEN [status |-> 200, reportId |-> TRUE, error |-> FALSE]
                    ELSE NoResponse
    /\ created = IF report.exists THEN 1 ELSE 0
    /\ published = IF report.exists THEN Len(Tasks) ELSE 0
    /\ queue = [i \in TaskIds |-> 0]
    /\ results \in DetectorResults
    /\ own = results.entries
    /\ last = NoInvocation
    /\ triggers = 1
    /\ reading = 0
    /\ updating = EmptyBag
    /\ failing = 0
    /\ finalized = 0
    /\ pdfTasks = 0
    /\ page = PlainPage
    /\ probe = NoProbe
    /\ ai = NoAI
    /\ faults = 0

NextDetector ==
    \/ DetectorReadReport
    \/ DetectorReadResults
    \/ \E f \in BagToSet(updating) : DetectorUpdate(f)
    \/ DetectorThrow
    \/ DetectorCatch

\* handleReportCompletion on every store.
SpecDetector == InitDetector /\ [][NextDetector]_vars

\* A request with a one-entry enabledServices list has been dispatched and
\* answered; its three task messages are pending.  The AI worker is followed
\* for either controller file and every environment.
InitAI ==
    /\ pc = "responded"
    /\ body = [websiteUrl |-> "https://example.com", email |-> FALSE,
               enabledServices |-> [given |-> FALSE, list |-> <<>>]]
    /\ response = [status |-> 200, reportId |-> TRUE, error |-> FALSE]
    /\ \E k \in ServiceIds :
          report = [NoReport EXCEPT !.exists = TRUE, !.status = "processing",
                                    !.enabledServices = <<k>>]
    /\ created = 1
    /\ published = 3
    /\ queue = [i \in TaskIds |-> IF i <= 3 THEN 1 ELSE 0]
    /\ results = NoResults
    /\ own = [k \in Keys |-> Absent]
    /\ last = NoInvocation
    /\ triggers = 0
    /\ reading = 0
    /\ updating = EmptyBag
    /\ failing = 0
    /\ finalized = 0
    /\ pdfTasks = 0
    /\ page = PlainPage
    /\ probe = NoProbe
    /\ ai \in [controller : Controllers, done : {FALSE}, calls : {0}, env : Envs]
    /\ faults = 0

NextAI == AIAnalysis

\* The AI worker of either controller file on every provider id and environment.
SpecAI == InitAI /\ [][NextAI]_vars

\* ------------------------------------------------------------------ claims
\* Nothing of the report is in flight: the request is answered, every task
\* message is consumed and no detector invocation is pending or running.
Quiet ==
    /\ pc = "responded"
    /\ \A i \in TaskIds : queue[i] = 0
    /\ triggers = 0
    /\ reading = 0
    /\ updating = EmptyBag
    /\ failing = 0

\* the keys that hold an entry
WrittenKeys == {k \in Keys : results.entries[k].status # "absent"}

\* {enabled provider ids} \cup {pagespeed, structure}
ExpectedSet == Range(Tasks)

\* Every task of the report ran and wrote a completed entry, and no run of it
\* ever wrote anything else (an error or a skip would have left its field).
AllSucceeded ==
    \A k \in ExpectedSet :
        results.entries[k] \in {AICompleted, ServiceCompleted}

\* the list names configured providers, each once
DistinctProviders ==
    /\ Range(report.enabledServices) \subseteq Providers
    /\ Cardinality(Range(report.enabledServices)) = Len(report.enabledServices)

\* C1: for one report, under every interleaving of worker merges and detector
\* invocations, the finalizing update (status completed, completedAt) is executed
\* at most once.
C1_FinalizedAtMostOnce == finalized <= 1

\* C2: for every valid request, when every dispatched task is delivered and every
\* worker succeeds, the report reaches status completed: once nothing is left
\* to run, it is completed.
C2_AllSucceedCompleted ==
    (Quiet /\ response.status = 200 /\ faults = 0 /\ AllSucceeded)
        => report.status = "completed"

\* C2 for the lists that name configured providers, each once
AllSucceedCompletedDistinct ==
    (Quiet /\ response.status = 200 /\ faults = 0 /\ AllSucceeded /\ DistinctProviders)
        => report.status = "completed"

\* C3: a sub-analysis that errors still counts: once every expected
\* sub-analysis has written a completed or error entry and nothing is left to
\* run, the report is completed.
C3_ErrorsCountAsDone ==
    (/\ Quiet /\ response.status = 200 /\ faults = 0
     /\ DistinctProviders
     /\ \A k \in ExpectedSet : results.entries[k].status \in {"completed", "error"})
        => report.status = "completed"

\* C4: a report is completed only if analysis_results holds an entry for every
\* member of its expected set, and a report whose entries cover the expected
\* set does not stay at processing once nothing is left to run.
C4_CompletedIffCovered ==
    /\ report.status = "completed" => ExpectedSet \subseteq WrittenKeys
    /\ (Quiet /\ response.status = 200 /\ ExpectedSet \subseteq WrittenKeys)
          => report.status # "processing"

\* the first half of C4 on its own
CompletedOnlyIfCovered ==
    report.status = "completed" => ExpectedSet \subseteq WrittenKeys

\* C5: for every request with a websiteUrl and any enabledServices list, analyze
\* creates exactly one report and publishes exactly |expected set| task messages.
C5_OneReportExpectedTasks ==
    response.status = 200
        => created = 1 /\ published = Cardinality(ExpectedSet)

\* what the dispatcher does publish: one message per list entry, plus two
PublishedPerListEntry ==
    response.status = 200
        => created = 1 /\ published = Len(report.enabledServices) + 2

\* The step is the end of the handler of task message i, acknowledged.
Ended(i) ==
    /\ i <= Len(Tasks)
    /\ last'.exit # "none"
    /\ queue'[i] < queue[i]

\* C6: a request without websiteUrl is answered 400 with an error, and no report
\* is created and no task message is published for it.
C6_MissingUrlRejected ==
    body.websiteUrl = ""
        => /\ created = 0 /\ published = 0 /\ ~report.exists
           /\ \A i \in TaskIds : queue[i] = 0
           /\ pc = "responded"
                => response = [status |-> 400, reportId |-> FALSE, error |-> TRUE]

C6_Witness ==
    body.websiteUrl = "" /\ pc = "responded" /\ response.status = 400

\* C7: every worker invocation (AI provider, PageSpeed, structure) ends with an
\* entry written at its own key and at no other key, whether its external call
\* succeeded or failed: its key is not left absent.
C7_WorkerWritesOwnKey ==
    [][\A i \in TaskIds :
          Ended(i)
            => /\ results'.exists
               /\ results'.entries[Tasks[i]].status \in {"completed", "error", "skipped"}
               /\ \A k \in Keys \ {Tasks[i]} :
                     results'.entries[k] = results.entries[k]]_vars

C7_Witness ==
    /\ last.exit = "threw"
    /\ \E k \in Keys : results.entries[k].status = "error"
    /\ \E k \in Keys : results.entries[k].status = "completed"

C9_NoCredentialSkipped ==
    [][\A i \in TaskIds :
          (Ended(i) /\ IsAITask(i) /\ Tasks[i] \in Providers /\ ~last'.credential)
            => /\ results'.entries[Tasks[i]].status = "skipped"
               /\ ~last'.net]_vars

\* C10: a merge by one worker leaves every other key of analysis_results as it
\* was, and after any interleaving each key holds what the workers of that key
\* wrote.
C10_NoClobbering ==
    [][/\ \A i \in TaskIds :
            Ended(i)
              => \A k \in Keys \ {Tasks[i]} : results'.entries[k] = results.entries[k]
       /\ results'.entries = own']_vars

C10_Witness ==
    /\ last.exit # "none"
    /\ Cardinality(WrittenKeys) >= 3

\* C11: analysis_results grows monotonically: a key once written is never
\* removed, and a later or duplicate delivery of the same task with a different
\* outcome does not overwrite the stored entry (its status tag stays).
C11_NeverOverwritten ==
    [][\A k \in Keys :
          results.entries[k].status # "absent"
            => results'.entries[k].status = results.entries[k].status]_vars

\* the first half of C11 on its own: a written key is never removed
KeysNeverRemoved ==
    [][\A k \in Keys :
          results.entries[k].status # "absent"
            => results'.entries[k].status # "absent"]_vars

\* The handler of task message i ended with the outcome its key already holds,
\* and holds unmixed: it returned and the key holds a completed or skipped
\* entry, or it threw and the key holds an error entry.
SameOutcomeAgain(i) ==
    /\ Ended(i)
    /\ \/ /\ last'.exit = "returned"
          /\ results.entries[Tasks[i]] \in {AICompleted, ServiceCompleted, AISkipped}
       \/ /\ last'.exit = "threw"
          /\ results.entries[Tasks[i]] = ErrorEntry

\* C12: merging is idempotent under retry: when a worker merges the same outcome
\* for the same key a second time, the keys, status tags and payloads of
\* analysis_results are what they were after the first merge.
C12_RetryIdempotent ==
    [][\A i \in TaskIds :
          SameOutcomeAgain(i)
            => results'.entries = results.entries /\ results'.ts = results.ts]_vars

\* A task message was delivered twice (the one fault of the run was its lost
\* acknowledgement), both deliveries succeeded, and every key holds the entry of
\* a success.
C12_Witness ==
    /\ faults = 1 /\ response.status = 200
    /\ ~report.error /\ failing = 0
    /\ \A i \in TaskIds : queue[i] = 0
    /\ last.exit = "returned"
    /\ AllSucceeded

\* C13: a detector invocation that finds the report already completed is a
\* no-op: it returns at its status check, writes neither the report nor
\* analysis_results, and does not go on to the steps that write.
C13_CompletedIsNoOp ==
    [][(triggers' < triggers /\ failing' = failing /\ report.status = "completed")
          => /\ report' = report /\ results' = results
             /\ reading' = reading /\ updating' = updating
             /\ finalized' = finalized]_vars

C13_Witness ==
    /\ last.noop
    /\ report.status = "completed" /\ finalized >= 1

\* C14: once the report has status completed, no later step of any detector
\* invocation, the error path of a concurrent one included, changes its status.
C14_CompletedIsFinal ==
    [][report.status = "completed" => report'.status = "completed"]_vars

\* C15: when a report created with an email is finalized, exactly one PDF/email
\* task is enqueued for it; when no email was supplied, none is.
C15_OnePdfTaskPerEmail ==
    /\ (report.status = "completed" /\ report.email) => pdfTasks = 1
    /\ ~report.email => pdfTasks = 0

\* the second half of C15 on its own
NoPdfTaskWithoutEmail == ~report.email => pdfTasks = 0

C17_FailureIsLocal ==
    /\ [][last'.exit = "threw"
            => /\ report' = report
               /\ \E i \in TaskIds :
                     \A j \in TaskIds \ {i} : queue'[j] = queue[j]]_vars
    /\ [](\A i \in TaskIds :
             (i <= Len(Tasks) /\ queue[i] > 0)
               => ENABLED (\E env \in EnvsOf(i) : Worker(i, env, TRUE)))
    /\ [](faults = 0 => report.status # "failed")

\* A worker has just failed, the task message of a sibling is still pending and
\* another sibling has stored a completed entry.
C17_Witness ==
    /\ last.exit = "threw"
    /\ \E i \in TaskIds : queue[i] > 0
    /\ \E k \in Keys : results.entries[k].status = "completed"
    /\ report.status = "processing"

\* C18: after analyze has created the report, only the detector writes to it: no
\* worker step changes the report, every later change of the report is the
\* update of a detector invocation (the finalizing one or the one of its catch
\* block), and no detector step changes analysis_results.
C18_WritersBySide ==
    [][/\ last'.exit # "none" => report' = report
       /\ (report.exists /\ report' # report)
            => \/ finalized' = finalized + 1 /\ updating' # updating
               \/ failing' = failing - 1
       /\ results' # results => last'.exit # "none"
       /\ (triggers' < triggers \/ reading' # reading \/ updating' # updating
             \/ failing' # failing \/ finalized' # finalized)
            => results' = results]_vars

\* The workers have written their keys and a detector invocation has finalized
\* the report.
C18_Witness ==
    /\ report.status = "completed" /\ finalized = 1
    /\ results.exists /\ Cardinality(WrittenKeys) >= 3
    /\ results.entries = own

\* C19: for enabledServices = [gemini], when gemini and PageSpeed succeed and the
\* structure probe fails, the report finalizes with status completed,
\* aiAnalysis.gemini and pageSpeed populated and websiteStructure holding the
\* error entry.
C19_StructureFailureFinalizes ==
    (/\ Quiet /\ response.status = 200 /\ faults = 0
     /\ report.enabledServices = <<"gemini">>
     /\ results.entries["gemini"] = AICompleted
     /\ results.entries["pageSpeed"] = ServiceCompleted
     /\ results.entries["websiteStructure"] = ErrorEntry)
        => /\ report.status = "completed"
           /\ report.aiAnalysis["gemini"] = AICompleted
           /\ report.pageSpeed = ServiceCompleted
           /\ report.websiteStructure = ErrorEntry

\* f is the grouping by kind of the entries of doc for the report rep.
GroupedByKind(f, rep, doc) ==
    /\ \A k \in ServiceIds :
          f.aiAnalysis[k] =
              IF k \in Range(rep.enabledServices) THEN doc.entries[k] ELSE Absent
    /\ \A k \in Range(rep.enabledServices) : f.aiAnalysis[k].status # "absent"
    /\ f.pageSpeed = doc.entries["pageSpeed"]
    /\ f.websiteStructure = doc.entries["websiteStructure"]
    /\ f.pageSpeed.status # "absent"
    /\ f.websiteStructure.status # "absent"

\* C20: on finalization the final result groups the outcomes by kind: the
\* finalReport a detector invocation builds holds, under aiAnalysis, one entry
\* per enabled provider and nothing else, each the provider's entry in
\* analysis_results as the invocation read it, and the PageSpeed and structure
\* outcomes as the standalone fields; the finalizing update stores that
\* finalReport in the report.
C20_GroupedByKind ==
    [][/\ (reading' < reading /\ updating' # updating)
            => \E f \in BagToSet(updating') :
                  /\ updating' = updating (+) SetToBag({f})
                  /\ GroupedByKind(f, report, results)
       /\ finalized' = finalized + 1
            => \E f \in BagToSet(updating) :
                  /\ updating' = updating (-) SetToBag({f})
                  /\ report'.aiAnalysis = f.aiAnalysis
                  /\ report'.pageSpeed = f.pageSpeed
                  /\ report'.websiteStructure = f.websiteStructure]_vars

\* When every task message is delivered once, the report also agrees with
\* analysis_results as it is at the finalizing update.
GroupedAtUpdate ==
    [][finalized' = finalized + 1 => GroupedByKind(report', report, results)]_vars

\* a report finalized for two enabled providers
C20_Witness ==
    /\ report.status = "completed" /\ finalized >= 1
    /\ Len(report.enabledServices) >= 2
    /\ \A k \in Range(report.enabledServices) : report.aiAnalysis[k] = AICompleted
    /\ report.pageSpeed = ServiceCompleted
    /\ report.websiteStructure = ServiceCompleted

\* C21: a skipped entry counts as done: when the worker of an enabled provider
\* wrote a skipped entry and every other expected sub-analysis has written a
\* completed entry, the report is completed once nothing is left to run.
C21_SkippedCountsAsDone ==
    (/\ Quiet /\ response.status = 200 /\ faults = 0
     /\ Cardinality(Range(report.enabledServices)) = Len(report.enabledServices)
     /\ \E k \in Range(report.enabledServices) : results.entries[k] = AISkipped
     /\ \A k \in ExpectedSet :
           results.entries[k] \in {AISkipped, AICompleted, ServiceCompleted})
        => report.status = "completed"

\* C22: when the request omits enabledServices, analyze records gemini, claude
\* and chatgpt as enabled and publishes exactly five task messages for the
\* report it created: one AI task per provider, then PageSpeed, then structure.
C22_DefaultFiveTasks ==
    /\ [][(pc = "analyze" /\ pc' = "publish" /\ ~body.enabledServices.given)
            => /\ report'.exists /\ report'.status = "processing"
               /\ report'.enabledServices = <<"gemini", "claude", "chatgpt">>]_vars
    /\ [][(pc = "client" /\ pc' = "analyze" /\ ~body.enabledServices.given)
            => EnabledList(body') = <<"gemini", "claude", "chatgpt">>]_vars
    /\ [](report.enabledServices = <<"gemini", "claude", "chatgpt">>
            => /\ Tasks = <<"gemini", "claude", "chatgpt", "pageSpeed",
                            "websiteStructure">>
               /\ published <= 5 /\ created = 1
               /\ \A i \in TaskIds : i > published => queue[i] = 0
               /\ response.status = 200 => published = 5)

C22_Witness ==
    /\ report.enabledServices = <<"gemini", "claude", "chatgpt">>
    /\ response.status = 200 /\ published = 5
    /\ \A i \in 1..5 : queue[i] = 1

\* some worker or detector invocation has run or is running
SomeInvocation ==
    \/ results.exists
    \/ triggers > 0 \/ reading > 0 \/ updating # EmptyBag \/ failing > 0
    \/ finalized > 0

\* C23: the report is created with status processing before any task message
\* for it is published, so every published message, every worker invocation and
\* every detector invocation is for a report that exists.
C23_ReportBeforeTasks ==
    /\ [][(~report.exists /\ report'.exists)
            => /\ report'.status = "processing"
               /\ published = 0 /\ published' = 0
               /\ \A i \in TaskIds : queue'[i] = 0
               /\ ~SomeInvocation]_vars
    /\ []((published > 0 \/ (\E i \in TaskIds : queue[i] > 0) \/ SomeInvocation)
            => report.exists)
    /\ [][report.exists => report'.exists]_vars

C23_Witness ==
    /\ report.exists /\ published > 0
    /\ last.exit # "none" /\ results.exists
    /\ triggers > 0

\* C24: when creating the report or publishing a task message fails in analyze,
\* the client receives a 500 response with an error and no reportId; a 200
\* response with a reportId is sent only after the report was created and every
\* task message was published.
C24_DispatchFailureIs500 ==
    /\ [][(/\ pc \in {"analyze", "publish"} /\ faults' = faults + 1
           /\ failing' = failing /\ last'.exit = "none")
            => /\ pc' = "responded"
               /\ response' = [status |-> 500, reportId |-> FALSE, error |-> TRUE]]_vars
    /\ [](response.status = 200
            => /\ response.reportId /\ ~response.error
               /\ report.exists /\ created = 1
               /\ published = Len(Tasks))
    /\ [](response.reportId => response.status = 200)

\* the third publish of a request failed
C24_Witness ==
    /\ response = [status |-> 500, reportId |-> FALSE, error |-> TRUE]
    /\ report.exists /\ published = 2 /\ Len(Tasks) > 2

\* C25: the structure probe reports imageAltsGood = true exactly when every
\* image element of the page has a non-empty alt attribute; it is true for a
\* page without image elements.
C25_ImageAltsGood ==
    (probe.done /\ ~probe.threw)
        => /\ probe.imageAltsGood
                <=> \A i \in 1..Len(page.imgs) : page.imgs[i] = "text"
           /\ page.imgs = <<>> => probe.imageAltsGood

C25_Witness ==
    /\ probe.done /\ ~probe.threw
    /\ page.imgs = <<>> /\ probe.imageAltsGood

\* the four recommendation strings in their fixed order
AllRecommendations ==
    <<"Add a meta description tag", "Add a title tag", "Add an H1 tag",
      "Add alt tags to all images">>

\* the strings of the rules the page violates
Violated(pg) ==
    {s \in Range(AllRecommendations) :
        \/ s = "Add a meta description tag" /\ pg.meta = "none"
        \/ s = "Add a title tag" /\ ~pg.title
        \/ s = "Add an H1 tag" /\ ~pg.h1
        \/ s = "Add alt tags to all images"
             /\ \E i \in 1..Len(pg.imgs) : pg.imgs[i] # "text"}

\* C26: the recommendation list is the sub-list of [meta description, title,
\* H1, alt tags] of exactly the violated rules, in that order, each string at
\* most once; a page missing all four yields all four.
C26_RecommendationsInOrder ==
    (probe.done /\ ~probe.threw)
        => LET IsViolated(s) == s \in Violated(page)
           IN  /\ probe.recommendations = SelectSeq(AllRecommendations, IsViolated)
               /\ Violated(page) = Range(AllRecommendations)
                    => probe.recommendations = AllRecommendations

\* a page without meta description, title and H1 whose two images lack alt
C26_Witness ==
    /\ probe.done /\ ~probe.threw
    /\ page.meta = "none" /\ ~page.title /\ ~page.h1
    /\ page.imgs = <<"none", "empty">>
    /\ probe.recommendations = AllRecommendations

\* C27: the /robots.txt and /sitemap.xml sub-checks never propagate an error:
\* any failure or status other than 200 gives false for the field and the probe
\* still returns a result; a failure of the page fetch makes the probe fail, and
\* the handler records it as the error entry of websiteStructure.
C27_SubChecksNeverThrow ==
    probe.done
        => /\ probe.threw <=> page.fetch # "200"
           /\ ~probe.threw
                => /\ probe.robotsTxtFound <=> page.robots = "200"
                   /\ probe.sitemapXmlFound <=> page.sitemap = "200"
                   /\ results.entries["websiteStructure"] = ServiceCompleted
           /\ probe.threw
                => /\ results.entries["websiteStructure"] = ErrorEntry
                   /\ last.exit = "threw"

\* robots.txt could not be requested, sitemap.xml was answered 404, and the
\* probe returned a result
C27_Witness ==
    /\ probe.done /\ ~probe.threw
    /\ page.robots = "unreachable" /\ page.sitemap = "404"
    /\ ~probe.robotsTxtFound /\ ~probe.sitemapXmlFound
    /\ results.entries["websiteStructure"].status = "completed"

\* C28: every entry a worker writes into analysis_results (completed, error or
\* skipped) carries its own timestamp, and every completed entry carries the
\* identifier of the provider or service that produced it.
C28_TimestampAndProducer ==
    [][\A i \in TaskIds :
          (Ended(i) /\ results.entries[Tasks[i]] = Absent)
            => LET e == results'.entries[Tasks[i]]
               IN  /\ e.ts
                   /\ e.status = "completed" => e.model]_vars

\* the part of C28 the handlers do keep: completed and error entries carry a
\* timestamp, and a completed entry of an AI provider carries its model
TimestampUnlessSkipped ==
    [][\A i \in TaskIds :
          (Ended(i) /\ results.entries[Tasks[i]] = Absent)
            => LET e == results'.entries[Tasks[i]]
               IN  /\ e.status # "skipped" => e.ts
                   /\ (e.status = "completed" /\ IsAITask(i)) => e.model]_vars

\* The report is as analyze created it: processing, no result field set.
Unfinalized ==
    /\ report.status = "processing"
    /\ report.aiAnalysis = [k \in ServiceIds |-> Absent]
    /\ report.pageSpeed = Absent /\ report.websiteStructure = Absent
    /\ ~report.completedAt

C30_ErrorPathMarksFailed ==
    [][/\ failing' > failing => (report' = report /\ results' = results)
       /\ failing' < failing
            => /\ report' = [report EXCEPT !.status = "failed", !.error = TRUE]
               /\ results' = results]_vars

\* the error path has run for a report whose workers had written
C30_Witness ==
    /\ report.status = "failed" /\ report.error
    /\ failing = 0 /\ faults >= 1
    /\ results.exists /\ results.entries = own

\* C31: failed is not an absorbing state: a detector invocation that reads a
\* report with status failed passes the status check (which tests for
\* completed only) and goes on to read analysis_results, and a finalizing
\* update on a failed report sets its status to completed.
C31_FailedNotAbsorbing ==
    [][/\ (triggers' < triggers /\ faults' = faults /\ report.status = "failed")
            => /\ reading' = reading + 1
               /\ report' = report
       /\ (finalized' = finalized + 1 /\ report.status = "failed")
            => report'.status = "completed"]_vars

\* The error path marked the report failed, a later invocation finalized it:
\* the report is completed and still carries the error message.
C31_Witness ==
    /\ report.status = "completed" /\ report.error
    /\ finalized = 1 /\ faults = 1
    /\ Quiet

\* the list names some id more than once
RepeatedId ==
    Cardinality(Range(report.enabledServices)) < Len(report.enabledServices)

\* C32: for a request whose enabledServices lists the same provider id twice,
\* the report is completed once every dispatched task has finished
\* successfully and nothing is left to run.
C32_RepeatedIdCompletes ==
    (Quiet /\ response.status = 200 /\ faults = 0 /\ AllSucceeded /\ RepeatedId)
        => report.status = "completed"

\* the count the detector requires against the keys the workers can write
RequiredEqualsWritable ==
    report.exists => ExpectedCompletionCount(report) = Cardinality(ExpectedSet)

\* C33: when a publish fails after the report was created and some task
\* messages were published, the report does not stay at processing: once
\* nothing is left to run its status is completed or failed.
C33_PartialDispatchTerminates ==
    (/\ Quiet /\ response.status = 500
     /\ report.exists /\ published > 0 /\ published < Len(Tasks))
        => report.status \in {"completed", "failed"}

\* C34: in every completed report the pageSpeed and websiteStructure fields
\* are copies of the entries of analysis_results, which are completed entries;
\* the placeholder { error: 'Data not found' } is in no completed report and
\* in no finalReport about to be stored.
C34_NoPlaceholderInCompleted ==
    /\ report.status = "completed"
          => /\ report.pageSpeed = results.entries["pageSpeed"]
             /\ report.websiteStructure = results.entries["websiteStructure"]
             /\ report.pageSpeed.status = "completed"
             /\ report.websiteStructure.status = "completed"
             /\ DataNotFound \notin {report.pageSpeed, report.websiteStructure}
    /\ \A f \in BagToSet(updating) :
          DataNotFound \notin {f.pageSpeed, f.websiteStructure}

\* the placeholder half of C34 on its own (it also holds when task messages
\* are delivered more than once)
NoPlaceholderStored ==
    /\ report.status = "completed"
          => DataNotFound \notin {report.pageSpeed, report.websiteStructure}
    /\ \A f \in BagToSet(updating) :
          DataNotFound \notin {f.pageSpeed, f.websiteStructure}

\* a report finalized for an empty list: its two fields are the two entries
C34_Witness ==
    /\ report.status = "completed" /\ finalized = 1
    /\ report.enabledServices = <<>>
    /\ report.pageSpeed = ServiceCompleted
    /\ report.pageSpeed = results.entries["pageSpeed"]
    /\ report.websiteStructure = ServiceCompleted
    /\ report.websiteStructure = results.entries["websiteStructure"]

\* C35: a detector invocation that finds no report document for the id, or no
\* analysis_results document for the id, returns at that check: it writes to
\* neither document and does not reach the steps that write.
C35_MissingRecordNoWrite ==
    [][/\ (triggers' < triggers /\ faults' = faults /\ ~report.exists)
            => /\ report' = report /\ results' = results
               /\ reading' = reading /\ updating' = updating
               /\ failing' = failing /\ finalized' = finalized
       /\ (reading' < reading /\ faults' = faults /\ ~results.exists)
            => /\ report' = report /\ results' = results
               /\ updating' = updating
               /\ failing' = failing /\ finalized' = finalized]_vars

\* The invocation read a report at processing, found no analysis_results
\* document and returned: nothing is pending and the report is as it was.
C35_Witness ==
    /\ report.exists /\ report.status = "processing" /\ ~report.error
    /\ ~results.exists
    /\ triggers = 0 /\ reading = 0 /\ updating = EmptyBag /\ failing = 0
    /\ finalized = 0 /\ faults = 0

\* the same for an id without a report document
MissingReportReturned ==
    /\ ~report.exists /\ results.exists
    /\ triggers = 0 /\ reading = 0 /\ updating = EmptyBag /\ failing = 0
    /\ finalized = 0 /\ faults = 0

\* s is among the recommendations of the probe
Recommended(s) == s \in Range(probe.recommendations)

\* C37: the structure probe's fields agree with its recommendations for every
\* page: metaDescription is null exactly when 'Add a meta description tag' is
\* recommended, h1TagsFound is false exactly when 'Add an H1 tag' is, and
\* imageAltsGood is false exactly when 'Add alt tags to all images' is.
C37_FieldsAgreeWithRecommendations ==
    (probe.done /\ ~probe.threw)
        => /\ probe.metaDescription = "null" <=> Recommended("Add a meta description tag")
           /\ ~probe.h1TagsFound <=> Recommended("Add an H1 tag")
           /\ ~probe.imageAltsGood <=> Recommended("Add alt tags to all images")

\* what does hold of C37: the H1 and alt fields agree with their
\* recommendations, and the meta description recommendation is given only
\* when metaDescription is null
FieldsAgreeButMeta ==
    (probe.done /\ ~probe.threw)
        => /\ Recommended("Add a meta description tag") => probe.metaDescription = "null"
           /\ ~probe.h1TagsFound <=> Recommended("Add an H1 tag")
           /\ ~probe.imageAltsGood <=> Recommended("Add alt tags to all images")

\* both provider calls of the invocation followed returned a value
BothSucceeded ==
    LET k == Tasks[1]
        seo == IF ai.controller = "part_006"
                 THEN CallProvider(k, ai.env, ai.env.first)
                 ELSE aiAnalysisCallProvider(k, ai.env, ai.env.first)
        company == IF ai.controller = "part_006"
                     THEN CallProvider(k, ai.env, ai.env.second)
                     ELSE aiAnalysisCallProvider(k, ai.env, ai.env.second)
    IN  seo.ok /\ company.ok

\* The worker followed was one for a configured provider: two provider calls,
\* one entry at its key, completed exactly when both calls succeeded, and
\* otherwise an error entry without payload.
TwoCallsOneEntry ==
    LET e == results.entries[Tasks[1]]
    IN  /\ ai.calls = 2
        /\ WrittenKeys \subseteq {Tasks[1]}
        /\ e.status = "completed" <=> BothSucceeded
        /\ BothSucceeded => e.payload
        /\ ~BothSucceeded => e = ErrorEntry

\* C36: an AI-provider worker issues two provider calls (seoAnalysis and
\* companyAnalysis) and writes a single entry for its key: the entry has status
\* completed exactly when both calls succeeded, and if either call fails the
\* whole entry is an error entry with no partial payload.  For the handler of
\* either controller file.
C36_TwoCallsOneEntry ==
    (ai.done /\ Tasks[1] \in Providers) => TwoCallsOneEntry

\* C36 for the handler of part_006 alone
TwoCallsOneEntryPart006 ==
    (ai.done /\ Tasks[1] \in Providers /\ ai.controller = "part_006")
        => TwoCallsOneEntry

====
